---- MODULE Spec2Model ----
(***************************************************************************)
(* The MCP HTTP bridge of Archon: the JSON-RPC endpoint rpc_endpoint in    *)
(* its two variants,                                                       *)
(*   "rest"  ARCHON/python/src/mcp_server/http_bridge.py, which forwards   *)
(*           each known method as one HTTP request to the Archon server,   *)
(*   "tool"  python/src/mcp_server/http_bridge.py, which calls the MCP     *)
(*           tool functions in process.                                    *)
(* One request is followed from the moment the handler is entered, over    *)
(* its single suspension point (the awaited outbound call), to the         *)
(* response envelope it returns.                                           *)
(***************************************************************************)
EXTENDS Integers, Sequences, FiniteSets, TLC

(* Bounds of the model. *)
MaxInt == 1
MaxParams == 3

(***************************************************************************)
(* Python / JSON values, tagged by type so that values of different types  *)
(* are different values.                                                   *)
(***************************************************************************)
StrV(s) == [t |-> "str", s |-> s]
IntV(n) == [t |-> "int", n |-> n]
NoneV == [t |-> "none"]
ListV(items) == [t |-> "list", items |-> items]
DictV(d) == [t |-> "dict", d |-> d]

EmptyDict == [k \in {} |-> NoneV]

(* bool(v), as `if not method` evaluates it. *)
Truthy(v) ==
    CASE v.t = "none" -> FALSE
      [] v.t = "str" -> v.s # ""
      [] v.t = "int" -> v.n # 0
      [] v.t = "list" -> v.items # <<>>
      [] v.t = "dict" -> DOMAIN v.d # {}

(* The name Python gives the type of v in an AttributeError. *)
TypeName(v) ==
    CASE v.t = "none" -> "NoneType"
      [] v.t = "str" -> "str"
      [] v.t = "int" -> "int"
      [] v.t = "list" -> "list"
      [] v.t = "dict" -> "dict"

RECURSIVE JoinWith(_, _, _)
JoinWith(parts, sep, i) ==
    IF i > Len(parts) THEN ""
    ELSE IF i = Len(parts) THEN parts[i]
    ELSE parts[i] \o sep \o JoinWith(parts, sep, i + 1)

(* json.dumps(v) with the given item separator, for the scalars and the    *)
(* lists of scalars the model's documents are made of.                     *)
DumpsScalar(v) ==
    CASE v.t = "none" -> "null"
      [] v.t = "int" -> ToString(v.n)
      [] v.t = "str" -> "\"" \o v.s \o "\""

DumpsWith(v, sep) ==
    IF v.t = "list"
    THEN "[" \o JoinWith([i \in 1..Len(v.items) |-> DumpsScalar(v.items[i])], sep, 1) \o "]"
    ELSE DumpsScalar(v)

(* json.dumps(result): the default separators are ", " and ": ". *)
Dumps(v) == DumpsWith(v, ", ")

(* The value an f-string interpolates for v: str(v). *)
Format(v) ==
    CASE v.t = "none" -> "None"
      [] v.t = "str" -> v.s
      [] v.t = "int" -> ToString(v.n)
      [] OTHER -> Dumps(v)

(***************************************************************************)
(* Request envelopes.  FastAPI hands rpc_endpoint a dict; each of the keys *)
(* method, params and id may be absent.                                    *)
(***************************************************************************)
KnownMethods ==
    {"perform_rag_query", "get_available_sources", "search_code_examples",
     "manage_project", "manage_task", "manage_document"}

MethodValues ==
    {StrV(m) : m \in KnownMethods \cup {"bogus", ""}} \cup {NoneV}

IdValues == {NoneV, StrV("abc")} \cup {IntV(n) : n \in 0..MaxInt}

ParamKeys ==
    {"action", "project_id", "task_id", "doc_id", "title", "query", "source",
     "match_count"}

KeyValues(k) ==
    CASE k = "action" -> {StrV("create"), StrV("get"), StrV("update")}
      [] k = "project_id" -> {StrV("P1"), IntV(MaxInt)}
      [] k = "task_id" -> {StrV("T1")}
      [] k = "doc_id" -> {StrV("D1")}
      [] k = "title" -> {StrV("T")}
      [] k = "query" -> {StrV("foo")}
      [] k = "source" -> {StrV("docs")}
      [] k = "match_count" -> {IntV(n) : n \in 0..MaxInt}

Absent == [t |-> "absent"]

Restrict(f, D) == [k \in D |-> f[k]]

Present(f) == {k \in DOMAIN f : f[k] # Absent}

ParamDicts ==
    {Restrict(c, Present(c)) :
        c \in {c \in [action : KeyValues("action") \cup {Absent},
                      project_id : KeyValues("project_id") \cup {Absent},
                      task_id : KeyValues("task_id") \cup {Absent},
                      doc_id : KeyValues("doc_id") \cup {Absent},
                      title : KeyValues("title") \cup {Absent},
                      query : KeyValues("query") \cup {Absent},
                      source : KeyValues("source") \cup {Absent},
                      match_count : KeyValues("match_count") \cup {Absent}] :
                  Cardinality(Present(c)) <= MaxParams}}

(* params is meant to be a mapping; a client can send any JSON value. *)
ParamValues == {DictV(d) : d \in ParamDicts} \cup {NoneV, ListV(<<StrV("foo")>>)}

Requests ==
    {Restrict(c, Present(c)) :
        c \in [method : MethodValues \cup {Absent},
               params : ParamValues \cup {Absent},
               id : IdValues \cup {Absent}]}

(***************************************************************************)
(* dict helpers                                                            *)
(***************************************************************************)
(* d.get(k, default) *)
Get(d, k, default) == IF k \in DOMAIN d THEN d[k] ELSE default

(* {k: v for k, v in d.items() if k not in keys} *)
Without(d, keys) == [k \in DOMAIN d \ keys |-> d[k]]

(* f(named..., **rest): the keyword arguments a call receives. *)
Kwargs(named, rest) ==
    [k \in DOMAIN named \cup DOMAIN rest |-> IF k \in DOMAIN named THEN named[k] ELSE rest[k]]

(***************************************************************************)
(* The three locals rpc_endpoint reads from the envelope.                  *)
(***************************************************************************)
MethodOf(req) == Get(req, "method", NoneV)

ParamsOf(req) == Get(req, "params", DictV(EmptyDict))

DefaultId == 1

(* request.get("id") or 1: a falsy id (0, null, "") is replaced. *)
RequestId_OrDefault(req) ==
    IF "id" \in DOMAIN req /\ Truthy(req["id"]) THEN req["id"] ELSE IntV(DefaultId)

RequestId(req) == Get(req, "id", IntV(DefaultId))

IsKnown(method) == method.t = "str" /\ method.s \in KnownMethods

(***************************************************************************)
(* Response envelopes.  A plain dict returned from the handler is sent     *)
(* with status 200; a JSONResponse carries its own status.                 *)
(***************************************************************************)
ErrorObject(code, message) == DictV([code |-> IntV(code), message |-> StrV(message)])

(* A success envelope that also carries "error": null. *)
SuccessEnvelope_NullError(request_id, result) ==
    [status |-> 200,
     content |-> [jsonrpc |-> StrV("2.0"), id |-> request_id, result |-> result,
                  error |-> NoneV]]

SuccessEnvelope(request_id, result) ==
    [status |-> 200,
     content |-> [jsonrpc |-> StrV("2.0"), id |-> request_id, result |-> result]]

(* The error returned as a plain dict, which is sent with status 200. *)
MethodNotSpecified_PlainDict(request_id) ==
    [status |-> 200,
     content |-> [jsonrpc |-> StrV("2.0"), id |-> request_id,
                  error |-> ErrorObject(-32600, "Method not specified")]]

MethodNotSpecified(request_id) ==
    [status |-> 400,
     content |-> [jsonrpc |-> StrV("2.0"), id |-> request_id,
                  error |-> ErrorObject(-32600, "Method not specified")]]

(* The not-found envelope with the code of the branch above it. *)
MethodNotFound_CopiedCode(request_id, method) ==
    [status |-> 404,
     content |-> [jsonrpc |-> StrV("2.0"), id |-> request_id,
                  error |-> ErrorObject(-32600, "Method '" \o Format(method) \o "' not found")]]

MethodNotFound(request_id, method) ==
    [status |-> 404,
     content |-> [jsonrpc |-> StrV("2.0"), id |-> request_id,
                  error |-> ErrorObject(-32601, "Method '" \o Format(method) \o "' not found")]]

(* The inner handler answering like the outer one, without the text. *)
ToolErrorEnvelope_Generic(request_id, text) ==
    [status |-> 500,
     content |-> [jsonrpc |-> StrV("2.0"), id |-> request_id,
                  error |-> ErrorObject(-32603, "Internal server error")]]

ToolErrorEnvelope(request_id, text) ==
    [status |-> 500,
     content |-> [jsonrpc |-> StrV("2.0"), id |-> request_id,
                  error |-> ErrorObject(-32603, text)]]

(***************************************************************************)
(* The outbound call of each known method.  A call is                      *)
(*   [verb, target, args]                                                  *)
(* rest: the HTTP verb, the path below server_url as its segments, and the *)
(*       JSON body (NoneV when the request has none);                      *)
(* tool: verb "call", the tool function's name, and its keyword arguments. *)
(***************************************************************************)
DefaultMatchCount == 5

(* params.get("match_count") or 5: a supplied 0 is replaced by the default.*)
MatchCount_OrDefault(params) ==
    IF "match_count" \in DOMAIN params /\ Truthy(params["match_count"])
    THEN params["match_count"]
    ELSE IntV(DefaultMatchCount)

(* params.get("match_count", 5) *)
MatchCount(params) == Get(params, "match_count", IntV(DefaultMatchCount))

(* The arguments of the two search calls; source_key is the params key the *)
(* source filter is read from.                                             *)
SearchArgs(params, source_key) ==
    [query |-> Get(params, "query", StrV("")),
     source_id |-> Get(params, source_key, NoneV),
     match_count |-> MatchCount(params)]

(* json=params: the filter on "action" forgotten. *)
ProjectCreateBody_Unfiltered(params) == params

(* manage_project, action "create": the body of POST /api/projects. *)
ProjectCreateBody(params) == Without(params, {"action"})

(* manage_project, any other action but "get": the body of the PATCH. *)
ProjectUpdateBody(params) == Without(params, {"action"})

(* manage_task / manage_document, action "create": the body of the POST. *)
ChildCreateBody(params) == Without(params, {"action", "project_id"})

(* The PATCH body filtered like the POST body, the id key left in. *)
ChildUpdateBody_KeepsId(params, id_key) == Without(params, {"action", "project_id"})

(* manage_task / manage_document, any other action: the body of the PATCH; *)
(* id_key is "task_id" or "doc_id".                                        *)
ChildUpdateBody(params, id_key) == Without(params, {"action", "project_id", id_key})

RestProjectCall(params) ==
    LET action == Get(params, "action", NoneV) IN
    IF action = StrV("create")
    THEN [verb |-> "POST", target |-> <<"api", "projects">>,
          args |-> DictV(ProjectCreateBody(params))]
    ELSE IF action = StrV("get")
    THEN [verb |-> "GET",
          target |-> <<"api", "projects", Format(Get(params, "project_id", NoneV))>>,
          args |-> NoneV]
    ELSE [verb |-> "PATCH",
          target |-> <<"api", "projects", Format(Get(params, "project_id", StrV("")))>>,
          args |-> DictV(ProjectUpdateBody(params))]

(* manage_task (collection "tasks", id_key "task_id") and manage_document  *)
(* (collection "documents", id_key "doc_id").                              *)
RestChildCall(params, collection, id_key) ==
    LET action == Get(params, "action", NoneV)
        project_id == Get(params, "project_id", StrV(""))
    IN
    IF action = StrV("create")
    THEN [verb |-> "POST",
          target |-> <<"api", "projects", Format(project_id), collection>>,
          args |-> DictV(ChildCreateBody(params))]
    ELSE [verb |-> "PATCH",
          target |-> <<"api", "projects", Format(project_id), collection,
                       Format(Get(params, id_key, StrV("")))>>,
          args |-> DictV(ChildUpdateBody(params, id_key))]

RestCall(method, params) ==
    CASE method = "perform_rag_query" ->
            [verb |-> "POST", target |-> <<"api", "rag", "query">>,
             args |-> DictV(SearchArgs(params, "source"))]
      [] method = "get_available_sources" ->
            [verb |-> "GET", target |-> <<"api", "rag", "sources">>, args |-> NoneV]
      [] method = "search_code_examples" ->
            [verb |-> "POST", target |-> <<"api", "rag", "code-examples">>,
             args |-> DictV(SearchArgs(params, "source_id"))]
      [] method = "manage_project" -> RestProjectCall(params)
      [] method = "manage_task" -> RestChildCall(params, "tasks", "task_id")
      [] method = "manage_document" -> RestChildCall(params, "documents", "doc_id")

(* manage_project(ctx, action=params.get("action"), **rest) *)
ToolProjectArgs(params) ==
    Kwargs([action |-> Get(params, "action", NoneV)], Without(params, {"action"}))

(* manage_task / manage_document(ctx, action=..., project_id=..., **rest) *)
ToolChildArgs(params) ==
    Kwargs([action |-> Get(params, "action", NoneV),
            project_id |-> Get(params, "project_id", NoneV)],
           Without(params, {"action", "project_id"}))

ToolCall(method, params) ==
    CASE method = "perform_rag_query" ->
            [verb |-> "call", target |-> <<"rag_search_knowledge_base">>,
             args |-> DictV(SearchArgs(params, "source"))]
      [] method = "get_available_sources" ->
            [verb |-> "call", target |-> <<"rag_get_available_sources">>,
             args |-> DictV(EmptyDict)]
      [] method = "search_code_examples" ->
            [verb |-> "call", target |-> <<"rag_search_code_examples">>,
             args |-> DictV(SearchArgs(params, "source_id"))]
      [] method = "manage_project" ->
            [verb |-> "call", target |-> <<"manage_project">>,
             args |-> DictV(ToolProjectArgs(params))]
      [] method = "manage_document" ->
            [verb |-> "call", target |-> <<"manage_document">>,
             args |-> DictV(ToolChildArgs(params))]
      [] method = "manage_task" ->
            [verb |-> "call", target |-> <<"manage_task">>,
             args |-> DictV(ToolChildArgs(params))]

OutboundCall(v, method, params) ==
    IF v = "rest" THEN RestCall(method, params) ELSE ToolCall(method, params)

(* 'NoneType' object has no attribute 'get': params.get on a non-mapping. *)
AttributeErrorText(v) == "'" \o TypeName(v) \o "' object has no attribute 'get'"

(* Every branch but get_available_sources reads params before it calls. *)
ReadsParams(method) == method # "get_available_sources"

(***************************************************************************)
(* Between the outer try and the inner one nothing raises: request is a    *)
(* dict, so the three request.get calls and the truth test of method       *)
(* cannot fail, and the tool variant only constructs its two context       *)
(* objects there.  The outer except clause is therefore never entered and  *)
(* has no counterpart here.                                                *)
(*                                                                         *)
(* rpc_endpoint from its entry to its first await or return:               *)
(*   [kind |-> "return", response]  an envelope returned without a call,   *)
(*   [kind |-> "raise", text]       an exception raised in the inner try   *)
(*                                  before any call was made,              *)
(*   [kind |-> "call", call]        the outbound call the handler awaits.  *)
(***************************************************************************)
Dispatch(v, req) ==
    LET method == MethodOf(req)
        params == ParamsOf(req)
        request_id == RequestId(req)
    IN
    IF ~Truthy(method)
    THEN [kind |-> "return", response |-> MethodNotSpecified(request_id)]
    ELSE IF ~IsKnown(method)
    THEN [kind |-> "return", response |-> MethodNotFound(request_id, method)]
    ELSE IF ReadsParams(method.s) /\ params.t # "dict"
    THEN [kind |-> "raise", text |-> AttributeErrorText(params)]
    ELSE [kind |-> "call",
          call |-> OutboundCall(v, method.s,
                                IF params.t = "dict" THEN params.d ELSE EmptyDict)]

(***************************************************************************)
(* What the awaited call can come back with.                               *)
(*   rest: the request raises (no connection), or an HTTP response with a  *)
(*         status and a body text;                                         *)
(*   tool: the tool function returns a value, or raises.                   *)
(***************************************************************************)
Documents ==
    {NoneV, IntV(MaxInt), StrV("ok"), ListV(<<IntV(MaxInt), StrV("ok")>>)}

(* Body texts: each document as json.dumps writes it, the same documents   *)
(* written without a space after the separator, and a body that is no JSON.*)
Bodies ==
    {Dumps(d) : d \in Documents} \cup {DumpsWith(d, ",") : d \in Documents}
        \cup {"<html>"}

RestOutcomes ==
    {[kind |-> "raise", text |-> "All connection attempts failed"]}
        \cup {[kind |-> "response", status |-> 200, body |-> b] : b \in Bodies}
        \cup {[kind |-> "response", status |-> st, body |-> "null"] : st \in {201, 404, 500}}

(* The MCP tools answer with a JSON string; nothing in the bridge relies   *)
(* on that, so any value may come back.                                    *)
ToolResults == {StrV(Dumps(d)) : d \in Documents} \cup Documents

ToolOutcomes ==
    {[kind |-> "raise", text |-> "tool failed"]}
        \cup {[kind |-> "return", value |-> r] : r \in ToolResults}

Outcomes(v) == IF v = "rest" THEN RestOutcomes ELSE ToolOutcomes

(* response.raise_for_status() raises unless the status is 2xx. *)
IsSuccess(status) == status \in 200..299

StatusErrorText(status) ==
    (IF status < 500 THEN "Client error" ELSE "Server error")
        \o " '" \o ToString(status) \o "'"

(* response.json(): the documents the body text is a rendering of. *)
Parsed(body) == {d \in Documents : body \in {Dumps(d), DumpsWith(d, ",")}}

ParseJson(body) == CHOOSE d \in Parsed(body) : TRUE

JSONDecodeErrorText == "Expecting value: line 1 column 1 (char 0)"

(* What the handler puts under "result": rest re-serialises the parsed     *)
(* document with json.dumps, tool passes the returned value on.            *)
EncodeResult(v, payload) == IF v = "rest" THEN StrV(Dumps(payload)) ELSE payload

(* The payload of an outcome that carries one. *)
Payload(o) == IF o.kind = "return" THEN o.value ELSE ParseJson(o.body)

HasPayload(o) ==
    \/ o.kind = "return"
    \/ o.kind = "response" /\ IsSuccess(o.status) /\ Parsed(o.body) # {}

(* rpc_endpoint from the completion of the awaited call to the end of the  *)
(* inner try: a success envelope returned, or an exception raised.         *)
Settle(v, request_id, o) ==
    IF o.kind = "raise"
    THEN [kind |-> "raise", text |-> o.text]
    ELSE IF o.kind = "response" /\ ~IsSuccess(o.status)
    THEN [kind |-> "raise", text |-> StatusErrorText(o.status)]
    ELSE IF o.kind = "response" /\ Parsed(o.body) = {}
    THEN [kind |-> "raise", text |-> JSONDecodeErrorText]
    ELSE [kind |-> "return",
          response |-> SuccessEnvelope(request_id, EncodeResult(v, Payload(o)))]

(* except Exception as tool_error: the envelope of a step of the inner try.*)
Caught(request_id, step) ==
    IF step.kind = "raise"
    THEN ToolErrorEnvelope(request_id, step.text)
    ELSE step.response

Raised(step) == IF step.kind = "raise" THEN <<step.text>> ELSE <<>>

(***************************************************************************)
(* State                                                                   *)
(***************************************************************************)
VARIABLES
    variant,    \* which of the two bridges is deployed
    pc,         \* "idle", "awaiting" (suspended in the outbound call), "responded"
    request,    \* the envelope being served
    calls,      \* the outbound calls issued for it, in order
    outcomes,   \* what those calls came back with, in order
    raised,     \* the exceptions the inner except clause caught
    response    \* the envelopes returned for it

vars == <<variant, pc, request, calls, outcomes, raised, response>>

Variants == {"rest", "tool"}

(***************************************************************************)
(* The demonstration agent (examples/python-agent/agent.py) is a separate  *)
(* process; its state stands still while the bridge is followed, and the   *)
(* bridge's while the agent is.                                            *)
(***************************************************************************)
VARIABLES
    apc,          \* "loop", "claim", "create", "link", "close", "finished", "exited"
    iter,         \* iterations of the for loop of run() entered so far
    issue,        \* the issue find_ready_work returned, NoneV when none
    new_issue,    \* what create_issue returned in simulate_work
    log,          \* the argv of the bd invocations of the current cycle
    prev_cmd,     \* the subcommand invoked last before the current cycle
    failed,       \* the argv of the invocation that exited non-zero
    error,        \* the exception that ended the run, "" when none
    exit_status   \* <<>> while the process runs, then <<its exit status>>

agent_vars ==
    <<apc, iter, issue, new_issue, log, prev_cmd, failed, error, exit_status>>

(* BeadsAgent() constructed, run() about to enter its loop. *)
AgentStart ==
    /\ apc = "loop"
    /\ iter = 0
    /\ issue = NoneV
    /\ new_issue = NoneV
    /\ log = <<>>
    /\ prev_cmd = "none"
    /\ failed = <<>>
    /\ error = ""
    /\ exit_status = <<>>

Init ==
    /\ AgentStart
    /\ variant \in Variants
    /\ pc = "idle"
    /\ request = EmptyDict
    /\ calls = <<>>
    /\ outcomes = <<>>
    /\ raised = <<>>
    /\ response = <<>>

(* POST /rpc arrives: the handler runs to its first await or return. *)
Receive(req) ==
    /\ pc = "idle"
    /\ request' = req
    /\ outcomes' = <<>>
    /\ LET step == Dispatch(variant, req) IN
        IF step.kind = "call"
        THEN /\ pc' = "awaiting"
             /\ calls' = <<step.call>>
             /\ raised' = <<>>
             /\ response' = <<>>
        ELSE /\ pc' = "responded"
             /\ calls' = <<>>
             /\ raised' = Raised(step)
             /\ response' = <<Caught(RequestId(req), step)>>
    /\ UNCHANGED variant

(* A handler that issues the call once more when it raised. *)
Complete_Retrying(o) ==
    /\ pc = "awaiting"
    /\ outcomes' = Append(outcomes, o)
    /\ IF o.kind = "raise" /\ Len(calls) < 2
       THEN /\ calls' = Append(calls, calls[1])
            /\ UNCHANGED <<pc, raised, response>>
       ELSE /\ LET step == Settle(variant, RequestId(request), o) IN
                /\ raised' = Raised(step)
                /\ response' = <<Caught(RequestId(request), step)>>
            /\ pc' = "responded"
            /\ UNCHANGED calls
    /\ UNCHANGED <<variant, request>>

(* The awaited call completes with outcome o: the handler resumes and      *)
(* returns.                                                                *)
Complete(o) ==
    /\ pc = "awaiting"
    /\ outcomes' = Append(outcomes, o)
    /\ LET step == Settle(variant, RequestId(request), o) IN
        /\ raised' = Raised(step)
        /\ response' = <<Caught(RequestId(request), step)>>
    /\ pc' = "responded"
    /\ UNCHANGED <<variant, request, calls>>

(* The response is sent; the dispatcher keeps nothing between requests. *)
Deliver ==
    /\ pc = "responded"
    /\ pc' = "idle"
    /\ request' = EmptyDict
    /\ calls' = <<>>
    /\ outcomes' = <<>>
    /\ raised' = <<>>
    /\ response' = <<>>
    /\ UNCHANGED variant

Next ==
    \/ pc = "idle" /\ (\E req \in Requests : Receive(req)) /\ UNCHANGED agent_vars
    \/ pc = "awaiting" /\ (\E o \in Outcomes(variant) : Complete(o))
            /\ UNCHANGED agent_vars
    \/ Deliver /\ UNCHANGED agent_vars

Spec == Init /\ [][Next]_vars

(***************************************************************************)
(* Properties                                                              *)
(***************************************************************************)
Responded == pc = "responded"

Method == MethodOf(request)

Params == ParamsOf(request)

ParamsDict == IF Params.t = "dict" THEN Params.d ELSE EmptyDict

Content == response[1].content

IsErrorReply(status, code) ==
    /\ Len(response) = 1
    /\ response[1].status = status
    /\ "error" \in DOMAIN Content
    /\ "result" \notin DOMAIN Content
    /\ Content.error.t = "dict"
    /\ Content.error.d.code = IntV(code)

(* C1: a request without `method` is answered with an error envelope of    *)
(* code -32600 and HTTP status 400, whatever params and id are, and no     *)
(* outbound call is made for it.                                           *)
C1_MissingMethodRejected ==
    (pc # "idle" /\ "method" \notin DOMAIN request) =>
        /\ Responded
        /\ IsErrorReply(400, -32600)
        /\ calls = <<>>
        /\ outcomes = <<>>

C1_Witness ==
    /\ Responded
    /\ "method" \notin DOMAIN request
    /\ "params" \in DOMAIN request /\ request.params = NoneV
    /\ "id" \in DOMAIN request /\ request.id = StrV("abc")
    /\ response[1].status = 400

(* C2 as claimed: every request whose `method` is present (a string) and   *)
(* is not one of the six known operations is answered with code -32601 and *)
(* status 404.                                                             *)
C2_PresentUnknownIs404 ==
    (Responded /\ "method" \in DOMAIN request /\ request.method.t = "str"
        /\ ~IsKnown(request.method)) =>
        IsErrorReply(404, -32601)

(* C2 amended: a request whose `method` is present, truthy (not null, not  *)
(* the empty string) and not one of the six known operations is answered   *)
(* with code -32601 and status 404, whatever params is; a present but      *)
(* falsy `method` is answered like a missing one, with -32600 and 400.     *)
C2_UnknownMethodRejected ==
    (pc # "idle" /\ "method" \in DOMAIN request /\ ~IsKnown(request.method)) =>
        /\ Responded
        /\ calls = <<>>
        /\ IF Truthy(request.method)
           THEN IsErrorReply(404, -32601)
           ELSE IsErrorReply(400, -32600)

C2_Witness ==
    /\ Responded
    /\ "method" \in DOMAIN request /\ request.method = StrV("bogus")
    /\ "params" \in DOMAIN request /\ request.params = ListV(<<StrV("foo")>>)
    /\ response[1].status = 404

(* The ways serving a known method fails, each with the text of the        *)
(* exception it raises.                                                    *)
MalformedParams == ReadsParams(Method.s) /\ Params.t # "dict"

CallFailed ==
    /\ outcomes # <<>>
    /\ ~HasPayload(outcomes[1])

FailureText ==
    IF outcomes = <<>> THEN AttributeErrorText(Params)
    ELSE IF outcomes[1].kind = "raise" THEN outcomes[1].text
    ELSE IF ~IsSuccess(outcomes[1].status) THEN StatusErrorText(outcomes[1].status)
    ELSE JSONDecodeErrorText

(* C3: when serving a known method fails (the call raises, the answer is   *)
(* not 2xx or not JSON, or params is no mapping), the response is an error *)
(* envelope with code -32603, the text of the exception as its message,    *)
(* and HTTP status 500.                                                    *)
C3_DownstreamFailureIs500 ==
    (Responded /\ IsKnown(Method) /\ (MalformedParams \/ CallFailed)) =>
        /\ IsErrorReply(500, -32603)
        /\ Len(raised) = 1
        /\ raised[1] = FailureText
        /\ Content.error.d.message = StrV(raised[1])

C3_Witness ==
    /\ Responded
    /\ IsKnown(Method)
    /\ variant = "rest"
    /\ outcomes # <<>>
    /\ outcomes[1].kind = "response" /\ outcomes[1].status = 404
    /\ Content.error.d.message = StrV(StatusErrorText(404))

(* C4: the response to a request naming a known method, success envelope   *)
(* or -32603 error envelope alike, carries the request's `id` unchanged,   *)
(* and 1 when the request has no `id`.                                     *)
C4_IdEchoed ==
    (Responded /\ IsKnown(Method)) =>
        /\ "id" \in DOMAIN Content
        /\ Content.id = (IF "id" \in DOMAIN request THEN request.id ELSE IntV(1))

C4_Witness ==
    /\ Responded
    /\ IsKnown(Method)
    /\ "result" \in DOMAIN Content
    /\ "id" \in DOMAIN request /\ request.id = IntV(0)
    /\ Content.id = IntV(0)

(* C5: every request is answered by exactly one envelope, whatever the     *)
(* outbound call comes back with; it has jsonrpc "2.0" and carries either  *)
(* `result` or `error`, never both and never neither.  No envelope exists  *)
(* while the handler is suspended.                                         *)
C5_OneWellFormedEnvelope ==
    /\ pc = "awaiting" => response = <<>>
    /\ Responded =>
        /\ Len(response) = 1
        /\ DOMAIN Content \subseteq {"jsonrpc", "id", "result", "error"}
        /\ Content.jsonrpc = StrV("2.0")
        /\ ("result" \in DOMAIN Content) # ("error" \in DOMAIN Content)
        /\ Len(raised) <= 1
        /\ raised # <<>> => "error" \in DOMAIN Content

C5_Witness ==
    /\ Responded
    /\ variant = "tool"
    /\ outcomes # <<>> /\ outcomes[1].kind = "raise"
    /\ "error" \in DOMAIN Content

Action == Get(ParamsDict, "action", NoneV)

(* body holds exactly the entries of params whose key is not in keys. *)
SameExcept(body, params, keys) ==
    /\ DOMAIN body = DOMAIN params \ keys
    /\ \A k \in DOMAIN body : body[k] = params[k]

RagCalled ==
    /\ pc # "idle"
    /\ Method = StrV("perform_rag_query")
    /\ calls # <<>>

SuppliedMatchCount ==
    IF "match_count" \in DOMAIN ParamsDict THEN ParamsDict["match_count"] ELSE IntV(5)

(* C6 as claimed: perform_rag_query calls the search with match_count 5    *)
(* when params gives none and with the supplied value otherwise, and the   *)
(* payload the call returns is the `result` of the success envelope,       *)
(* unchanged in value and type.                                            *)
C6_ResultVerbatim ==
    RagCalled =>
        /\ calls[1].args.d.match_count = SuppliedMatchCount
        /\ (Responded /\ HasPayload(outcomes[1])) =>
            /\ "result" \in DOMAIN Content
            /\ Content.result = Payload(outcomes[1])

(* C6 amended: perform_rag_query calls the search with match_count 5 when  *)
(* params gives none and with the supplied value otherwise.  The tool      *)
(* variant puts the value the tool returned under `result` unchanged; the  *)
(* rest variant puts there a string, the json.dumps text of the JSON       *)
(* document the server answered with.                                      *)
C6_MatchCountAndResult ==
    RagCalled =>
        /\ Len(calls) = 1
        /\ calls[1].args.t = "dict"
        /\ calls[1].args.d.match_count = SuppliedMatchCount
        /\ (Responded /\ HasPayload(outcomes[1])) =>
            /\ response[1].status = 200
            /\ "result" \in DOMAIN Content
            /\ IF variant = "tool"
               THEN Content.result = outcomes[1].value
               ELSE /\ Content.result.t = "str"
                    /\ Content.result.s = Dumps(ParseJson(outcomes[1].body))

C6_Witness ==
    /\ Responded
    /\ variant = "rest"
    /\ Method = StrV("perform_rag_query")
    /\ DOMAIN ParamsDict = {"query"}
    /\ calls[1].args.d.match_count = IntV(5)
    /\ outcomes[1].kind = "response"
    /\ outcomes[1].body = DumpsWith(ListV(<<IntV(MaxInt), StrV("ok")>>), ",")
    /\ Content.result = StrV(Dumps(ListV(<<IntV(MaxInt), StrV("ok")>>)))

ProjectCreate ==
    /\ pc # "idle"
    /\ Method = StrV("manage_project")
    /\ Params.t = "dict"
    /\ Action = StrV("create")

(* C7: for manage_project with action "create" the create call receives    *)
(* the params without the `action` key, every other key with its value and *)
(* no key added: as the JSON body of POST /api/projects in the rest        *)
(* variant, as the keyword arguments beside the named `action` in the tool *)
(* variant.                                                                *)
C7_CreateBodyOmitsAction ==
    ProjectCreate =>
        /\ Len(calls) = 1
        /\ calls[1].args.t = "dict"
        /\ IF variant = "rest"
           THEN /\ calls[1].verb = "POST"
                /\ calls[1].target = <<"api", "projects">>
                /\ SameExcept(calls[1].args.d, ParamsDict, {"action"})
           ELSE /\ calls[1].target = <<"manage_project">>
                /\ calls[1].args.d.action = StrV("create")
                /\ SameExcept([k \in DOMAIN calls[1].args.d \ {"action"} |-> calls[1].args.d[k]],
                              ParamsDict, {"action"})

C7_Witness ==
    /\ ProjectCreate
    /\ variant = "rest"
    /\ DOMAIN ParamsDict = {"action", "title", "project_id"}
    /\ calls[1].verb = "POST"
    /\ DOMAIN calls[1].args.d = {"title", "project_id"}
    /\ calls[1].args.d.title = StrV("T")

ProjectUpdate ==
    /\ pc # "idle"
    /\ variant = "rest"
    /\ Method = StrV("manage_project")
    /\ Params.t = "dict"
    /\ Action \notin {StrV("create"), StrV("get")}

(* C8: for manage_project with an action other than "create" and "get", or *)
(* with none, the call is a PATCH on the project named by project_id whose *)
(* body is the params without `action` and `project_id`.                   *)
C8_PatchBodyOmitsProjectId ==
    ProjectUpdate =>
        /\ Len(calls) = 1
        /\ calls[1].verb = "PATCH"
        /\ calls[1].target = <<"api", "projects", Format(Get(ParamsDict, "project_id", StrV("")))>>
        /\ calls[1].args.t = "dict"
        /\ SameExcept(calls[1].args.d, ParamsDict, {"action", "project_id"})

ChildMethods == {"manage_task", "manage_document"}

ChildCalled ==
    /\ pc # "idle"
    /\ IsKnown(Method)
    /\ Method.s \in ChildMethods
    /\ Params.t = "dict"

Collection == IF Method.s = "manage_task" THEN "tasks" ELSE "documents"

IdKey == IF Method.s = "manage_task" THEN "task_id" ELSE "doc_id"

GivenOrEmpty(k) == IF k \in DOMAIN ParamsDict THEN Format(ParamsDict[k]) ELSE ""

(* C9: manage_task and manage_document with action "create" POST to the    *)
(* collection under the given project_id a body of the params without      *)
(* `action` and `project_id`; with any other action they PATCH the path of *)
(* project_id and task_id (doc_id) with a body of the params without       *)
(* `action`, `project_id` and that id key.  The tool variant hands the     *)
(* tool function project_id by name and the params without `action` and    *)
(* `project_id` as further keyword arguments.                              *)
C9_ChildCalls ==
    ChildCalled =>
        /\ Len(calls) = 1
        /\ calls[1].args.t = "dict"
        /\ IF variant = "rest"
           THEN IF Action = StrV("create")
                THEN /\ calls[1].verb = "POST"
                     /\ calls[1].target =
                            <<"api", "projects", GivenOrEmpty("project_id"), Collection>>
                     /\ SameExcept(calls[1].args.d, ParamsDict, {"action", "project_id"})
                ELSE /\ calls[1].verb = "PATCH"
                     /\ calls[1].target =
                            <<"api", "projects", GivenOrEmpty("project_id"), Collection,
                              GivenOrEmpty(IdKey)>>
                     /\ SameExcept(calls[1].args.d, ParamsDict,
                                   {"action", "project_id", IdKey})
           ELSE /\ calls[1].target = <<Method.s>>
                /\ calls[1].args.d.project_id = Get(ParamsDict, "project_id", NoneV)
                /\ SameExcept([k \in DOMAIN calls[1].args.d \ {"action", "project_id"} |->
                                  calls[1].args.d[k]],
                              ParamsDict, {"action", "project_id"})

C9_Witness ==
    /\ ChildCalled
    /\ variant = "rest"
    /\ Method.s = "manage_document"
    /\ DOMAIN ParamsDict = {"project_id", "doc_id", "title"}
    /\ ParamsDict.project_id = IntV(MaxInt)
    /\ calls[1].verb = "PATCH"
    /\ calls[1].target = <<"api", "projects", ToString(MaxInt), "documents", "D1">>
    /\ calls[1].args.d = [title |-> StrV("T")]

(* C10: a request makes at most one outbound call; it is answered only     *)
(* once that call has come back, returned or failed; a request with a      *)
(* missing or unknown method makes none; a failed call is not issued again.*)
C10_AtMostOneCall ==
    /\ Len(calls) <= 1
    /\ Len(outcomes) <= Len(calls)
    /\ pc = "awaiting" => (Len(calls) = 1 /\ outcomes = <<>> /\ response = <<>>)
    /\ Responded => (Len(outcomes) = Len(calls) /\ Len(response) = 1)
    /\ (pc # "idle" /\ ~IsKnown(Method)) => calls = <<>>

C10_Witness ==
    /\ Responded
    /\ Len(calls) = 1
    /\ Len(outcomes) = 1
    /\ outcomes[1].kind = "raise"
    /\ response[1].status = 500

(***************************************************************************)
(* The demonstration agent: BeadsAgent.run and main of                     *)
(* examples/python-agent/agent.py.  Every step is one blocking invocation  *)
(* of the bd binary, which exits with a code and leaves a text on stdout.  *)
(***************************************************************************)
MaxIterations == 10

(* A loop that runs once more than max_iterations. *)
LoopContinues_OneMore(i) == i <= MaxIterations

(* for i in range(max_iterations) *)
LoopContinues(i) == i < MaxIterations

UpperCase == "ABCDEFGHIJKLMNOPQRSTUVWXYZ"

LowerCase == "abcdefghijklmnopqrstuvwxyz"

LowerChar(c) ==
    IF \E i \in 1..Len(UpperCase) : SubSeq(UpperCase, i, i) = c
    THEN LET i == CHOOSE i \in 1..Len(UpperCase) : SubSeq(UpperCase, i, i) = c
         IN SubSeq(LowerCase, i, i)
    ELSE c

RECURSIVE LowerFrom(_, _)
LowerFrom(s, i) ==
    IF i > Len(s) THEN "" ELSE LowerChar(SubSeq(s, i, i)) \o LowerFrom(s, i + 1)

(* title.lower() *)
Lower(s) == LowerFrom(s, 1)

(* sub in s *)
Contains(s, sub) ==
    \E i \in 1..(Len(s) - Len(sub) + 1) : SubSeq(s, i, i + Len(sub) - 1) = sub

(* simulate_work: "implement" in title.lower() or "add" in title.lower() *)
Discovers(title) ==
    Contains(Lower(title), "implement") \/ Contains(Lower(title), "add")

(* The issues bd reports, as the JSON objects json.loads makes of them. *)
IssueObject(id, title) ==
    DictV([id |-> StrV(id), title |-> StrV(title), priority |-> IntV(2),
           issue_type |-> StrV("task")])

IssueIds == {"bd-1", "bd-2"}

Titles == {"Add login", "IMPLEMENT cache", "Fix padding", "Fix bug"}

Issues == {IssueObject(i, t) : i \in IssueIds, t \in Titles}

DiscoveredIssue == IssueObject("bd-9", "discovered")

(* What an invocation leaves on stdout: nothing, a JSON document, or a     *)
(* text that is no JSON.                                                   *)
NoOutput == [kind |-> "empty"]

Garbage == [kind |-> "garbage"]

Json(doc) == [kind |-> "json", doc |-> doc]

ReadyOutputs ==
    {NoOutput, Garbage, Json(ListV(<<>>))} \cup {Json(ListV(<<i>>)) : i \in Issues}

UpdateOutputs == {NoOutput, Garbage} \cup {Json(i) : i \in Issues}

CreateOutputs == {NoOutput, Garbage, Json(DiscoveredIssue)}

ExitCodes == {0, 1}

(* subprocess.run(cmd, ..., check=True) in run_bd raises                   *)
(* CalledProcessError on a non-zero exit.                                  *)
RunBdRaises(code) == code # 0

(* link_discovery calling subprocess.run without check=True. *)
LinkRaises_Unchecked(code) == FALSE

(* subprocess.run([...], check=True) in link_discovery. *)
LinkRaises(code) == code # 0

(* run_bd: the parsed stdout, {} when stdout is blank, or the exception. *)
RunBd(code, out) ==
    IF RunBdRaises(code)
    THEN [kind |-> "raise", error |-> "CalledProcessError"]
    ELSE IF out.kind = "empty"
    THEN [kind |-> "return", value |-> DictV(EmptyDict)]
    ELSE IF out.kind = "garbage"
    THEN [kind |-> "raise", error |-> "JSONDecodeError"]
    ELSE [kind |-> "return", value |-> out.doc]

(* find_ready_work and `if not issue`: the first element of a non-empty    *)
(* list, unless it is falsy.                                               *)
FirstReady(ready) ==
    IF ready.t = "list" /\ Len(ready.items) > 0 /\ Truthy(ready.items[1])
    THEN ready.items[1]
    ELSE NoneV

(* The argv of each invocation. *)
ReadyArgv == <<"bd", "ready", "--limit", "1", "--json">>

UpdateArgv(issue_id) == <<"bd", "update", issue_id, "--status", "in_progress", "--json">>

CreateArgv(title, description) ==
    <<"bd", "create", title, "-p", "1", "-t", "task", "-d", description, "--json">>

LinkArgv(discovered_id, parent_id) ==
    <<"bd", "dep", "add", discovered_id, parent_id, "--type", "discovered-from">>

CloseArgv(issue_id) ==
    <<"bd", "close", issue_id, "--reason", "Implemented successfully", "--json">>

TestsTitle(title) == "Add tests for " \o title

TestsDescription(issue_id) ==
    "While implementing " \o issue_id \o ", noticed missing tests"

LastCmd(l) == IF l = <<>> THEN "none" ELSE l[Len(l)][2]

(* The invocation that exited non-zero, if this one did. *)
Failure(argv, code) == IF code # 0 THEN <<argv>> ELSE failed

(* An exception leaves run(): main turns CalledProcessError into           *)
(* sys.exit(1); any other exception but KeyboardInterrupt is not caught    *)
(* and ends the interpreter with status 1 as well.                         *)
Dies(err) ==
    /\ apc' = "exited"
    /\ error' = err
    /\ exit_status' = <<1>>

Continues(next) ==
    /\ apc' = next
    /\ UNCHANGED <<error, exit_status>>

(* run() returns and main with it. *)
Finishes ==
    /\ apc' = "finished"
    /\ exit_status' = <<0>>
    /\ UNCHANGED error

(* run_once: find_ready_work. *)
FindReady(code, out) ==
    /\ apc = "loop"
    /\ LoopContinues(iter)
    /\ iter' = iter + 1
    /\ prev_cmd' = LastCmd(log)
    /\ log' = <<ReadyArgv>>
    /\ failed' = Failure(ReadyArgv, code)
    /\ new_issue' = NoneV
    /\ LET r == RunBd(code, out) IN
        IF r.kind = "raise"
        THEN issue' = NoneV /\ Dies(r.error)
        ELSE /\ issue' = FirstReady(r.value)
             /\ IF FirstReady(r.value) = NoneV THEN Finishes ELSE Continues("claim")

(* run(): the range is exhausted. *)
LoopEnds ==
    /\ apc = "loop"
    /\ ~LoopContinues(iter)
    /\ Finishes
    /\ UNCHANGED <<iter, issue, new_issue, log, prev_cmd, failed>>

(* run_once: claim_task(issue["id"]), then the test simulate_work makes on *)
(* the title.                                                              *)
Claim(code, out) ==
    /\ apc = "claim"
    /\ log' = Append(log, UpdateArgv(issue.d.id.s))
    /\ failed' = Failure(UpdateArgv(issue.d.id.s), code)
    /\ LET r == RunBd(code, out) IN
        IF r.kind = "raise"
        THEN Dies(r.error)
        ELSE Continues(IF Discovers(issue.d.title.s) THEN "create" ELSE "close")
    /\ UNCHANGED <<iter, issue, new_issue, prev_cmd>>

(* simulate_work: create_issue(...), then new_issue["id"]. *)
Create(code, out) ==
    /\ apc = "create"
    /\ LET argv == CreateArgv(TestsTitle(issue.d.title.s), TestsDescription(issue.d.id.s))
           r == RunBd(code, out)
       IN
        /\ log' = Append(log, argv)
        /\ failed' = Failure(argv, code)
        /\ IF r.kind = "raise"
           THEN new_issue' = NoneV /\ Dies(r.error)
           ELSE /\ new_issue' = r.value
                /\ IF r.value.t = "dict" /\ "id" \in DOMAIN r.value.d
                   THEN Continues("link")
                   ELSE Dies("KeyError")
    /\ UNCHANGED <<iter, issue, prev_cmd>>

(* simulate_work: link_discovery(new_issue["id"], issue_id). *)
Link(code) ==
    /\ apc = "link"
    /\ LET argv == LinkArgv(new_issue.d.id.s, issue.d.id.s) IN
        /\ log' = Append(log, argv)
        /\ failed' = Failure(argv, code)
    /\ IF LinkRaises(code) THEN Dies("CalledProcessError") ELSE Continues("close")
    /\ UNCHANGED <<iter, issue, new_issue, prev_cmd>>

(* run_once: complete_task(issue["id"], "Implemented successfully"). *)
Close(code, out) ==
    /\ apc = "close"
    /\ log' = Append(log, CloseArgv(issue.d.id.s))
    /\ failed' = Failure(CloseArgv(issue.d.id.s), code)
    /\ LET r == RunBd(code, out) IN
        IF r.kind = "raise" THEN Dies(r.error) ELSE Continues("loop")
    /\ UNCHANGED <<iter, issue, new_issue, prev_cmd>>

(* main: except KeyboardInterrupt, sys.exit(0). *)
Interrupt ==
    /\ apc \notin {"finished", "exited"}
    /\ apc' = "exited"
    /\ error' = "KeyboardInterrupt"
    /\ exit_status' = <<0>>
    /\ UNCHANGED <<iter, issue, new_issue, log, prev_cmd, failed>>

BridgeIdle ==
    /\ variant = "rest"
    /\ pc = "idle"
    /\ request = EmptyDict
    /\ calls = <<>>
    /\ outcomes = <<>>
    /\ raised = <<>>
    /\ response = <<>>

AgentInit == AgentStart /\ BridgeIdle

AgentNext ==
    \/ apc = "loop" /\ (\E c \in ExitCodes, o \in ReadyOutputs : FindReady(c, o))
            /\ UNCHANGED vars
    \/ LoopEnds /\ UNCHANGED vars
    \/ apc = "claim" /\ (\E c \in ExitCodes, o \in UpdateOutputs : Claim(c, o))
            /\ UNCHANGED vars
    \/ apc = "create" /\ (\E c \in ExitCodes, o \in CreateOutputs : Create(c, o))
            /\ UNCHANGED vars
    \/ apc = "link" /\ (\E c \in ExitCodes : Link(c)) /\ UNCHANGED vars
    \/ apc = "close" /\ (\E c \in ExitCodes, o \in UpdateOutputs : Close(c, o))
            /\ UNCHANGED vars
    \/ Interrupt /\ UNCHANGED vars

AgentSpec == AgentInit /\ [][AgentNext]_<<vars, agent_vars>>

(***************************************************************************)
(* Properties of the agent                                                 *)
(***************************************************************************)
Subcommands == [i \in 1..Len(log) |-> log[i][2]]

IsPrefix(a, b) ==
    /\ Len(a) <= Len(b)
    /\ \A i \in 1..Len(a) : a[i] = b[i]

PlainCycle == <<"ready", "update", "close">>

DiscoveryCycle == <<"ready", "update", "create", "dep", "close">>

(* C11: a run makes at most max_iterations (10) cycles, one ready query    *)
(* each, and ends at the first whose ready query returns no item.  Within  *)
(* a cycle that found an item the invocations are, in this order: ready,   *)
(* update to in_progress, optionally create followed by dep add, close;    *)
(* update and close name the id ready returned; and the cycle before a     *)
(* ready query ended with its close.                                       *)
C11_CycleOrder ==
    /\ iter <= MaxIterations
    /\ (iter = 0) = (log = <<>>)
    /\ IsPrefix(Subcommands, PlainCycle) \/ IsPrefix(Subcommands, DiscoveryCycle)
    /\ Len(log) >= 1 => log[1] = ReadyArgv
    /\ Len(log) >= 2 =>
        /\ issue # NoneV
        /\ log[2] = UpdateArgv(issue.d.id.s)
    /\ LastCmd(log) = "close" => log[Len(log)] = CloseArgv(issue.d.id.s)
    /\ prev_cmd = (IF iter >= 2 THEN "close" ELSE "none")
    /\ (iter >= 1 /\ issue = NoneV /\ error = "") =>
        (apc = "finished" /\ Len(log) = 1)
    /\ apc = "finished" =>
        /\ exit_status = <<0>>
        /\ \/ issue = NoneV
           \/ iter = MaxIterations /\ LastCmd(log) = "close"

C11_Witness ==
    /\ apc = "finished"
    /\ iter = MaxIterations
    /\ Subcommands = DiscoveryCycle
    /\ log[4] = LinkArgv("bd-9", issue.d.id.s)
    /\ prev_cmd = "close"

(* C12: once an invocation of bd (ready, update, create, dep add or close) *)
(* has exited non-zero, it is the last invocation of the run: the process  *)
(* has ended with exit status 1 and the item claimed in that cycle has not *)
(* been closed.                                                            *)
C12_NonZeroExitIsFatal ==
    failed # <<>> =>
        /\ apc = "exited"
        /\ error = "CalledProcessError"
        /\ exit_status = <<1>>
        /\ log[Len(log)] = failed[1]
        /\ \A i \in 1..(Len(log) - 1) : log[i][2] # "close"

C12_Witness ==
    /\ failed # <<>>
    /\ failed[1][2] = "dep"
    /\ Subcommands = <<"ready", "update", "create", "dep">>
    /\ iter = 2
    /\ exit_status = <<1>>

====
